---- MODULE Spec2Model ----
(***************************************************************************)
(* dnsupdate (src/main.rs): one run of the dynamic DNS updater.            *)
(*                                                                         *)
(* main fetches the external IP, loads the configuration, then runs        *)
(* CloudflareService::update over its domains and YDNSService::update over *)
(* its domains, strictly sequentially.  Every network call blocks; the     *)
(* model splits the program at each call, the response being the           *)
(* environment's choice.  Names are sequences of one-character strings so  *)
(* that the URL and body formatting is computed, not assumed.              *)
(***************************************************************************)
EXTENDS Naturals, Sequences, FiniteSets

VARIABLES
    pc,         \* position of the single thread
    cfDomains,  \* config.cloudflare.domains
    ydDomains,  \* config.ydns.domains
    i,          \* index of the subdomain the current for loop is at
    tld,        \* local: result of TldExtractor::extract
    zone_id,    \* local: resp["result"][0]["id"] of the zone lookup
    proxied,    \* local: resp["result"][0]["proxied"] of the record lookup
    record_id,  \* local: resp["result"][0]["id"] of the record lookup
    zones,      \* backend A: the active zones
    records,    \* backend A: the DNS records of the zone, by record id
    calls,      \* history: every network call issued, in order
    resps,      \* history: every response received, in order
    puts,       \* history: every update (PUT) request issued
    out,        \* stdout, one entry per print!/println!
    attempts,   \* history: the loop iterations started
    outcomes,   \* history: how each finished iteration ended
    fatal,      \* why the process aborted ("none" while it has not)
    run,        \* which run of the Cloudflare protocol this is (1 or 2)
    snap        \* the record store the previous run left, and whether the
                \* backend served every call of that run

vars == <<pc, cfDomains, ydDomains, i, tld, zone_id, proxied, record_id,
          zones, records, calls, resps, puts, out, attempts, outcomes, fatal,
          run, snap>>

(***************************************************************************)
(* Bounds and finite domains.                                              *)
(***************************************************************************)
MaxDomains == 2

ApexName == <<"e", ".", "c">>
LabelName == <<"h", ".", "e", ".", "c">>
BadName == <<"e", ".", "x">>
CfNames == {ApexName, LabelName, BadName}
YdName == <<"y", ".", "c">>
PublicSuffixes == {<<"c">>}

RecordIds == {"r1", "r2"}
RecTypes == {"A", "AAAA", "CNAME"}
JsonBools == {"true", "false"}
Null == "null"
OldIp == "old"
MyIp == "new"
TheZone == [id |-> "z1", name |-> ApexName]
Statuses == {200, 204, 401}

\* the record stores a run may start from: r1 is any record of the zone, r2
\* a second one (an AAAA record, the usual companion of an A record) that
\* bears either name
Stores ==
    {[r \in RecordIds |-> IF r = "r1" THEN a ELSE b] :
        a \in [name : {ApexName, LabelName}, type : RecTypes,
               content : {OldIp}, proxied : JsonBools],
        b \in [name : {ApexName, LabelName}, type : {"AAAA"},
               content : {OldIp}, proxied : {"true"}]}

SeqsUpTo(S, n) == UNION {[1..k -> S] : k \in 0..n}

(***************************************************************************)
(* Strings.                                                                *)
(***************************************************************************)
Dot == <<".">>

RECURSIVE Split(_)
\* str::split('.'): the labels of a name
Split(s) ==
    IF \A k \in 1..Len(s) : s[k] # "."
    THEN <<s>>
    ELSE LET k == CHOOSE k \in 1..Len(s) :
                      s[k] = "." /\ \A m \in 1..(k - 1) : s[m] # "."
         IN  <<SubSeq(s, 1, k - 1)>> \o Split(SubSeq(s, k + 1, Len(s)))

RECURSIVE Join(_)
\* [..].join("."): the labels with a separator between them
Join(ls) ==
    IF Len(ls) = 0 THEN <<>>
    ELSE IF Len(ls) = 1 THEN ls[1]
    ELSE ls[1] \o Dot \o Join(Tail(ls))

\* TldExtractor::extract: the longest known suffix, the label before it,
\* and what is left of that (None when nothing is)
Extract(s) ==
    LET ls == Split(s)
        n == Len(ls)
        cands == {k \in 1..n : Join(SubSeq(ls, k, n)) \in PublicSuffixes}
    IN  IF cands = {} \/ 1 \in cands
        THEN [ok |-> FALSE, hasSub |-> FALSE, subdomain |-> <<>>,
              domain |-> <<>>, suffix |-> <<>>]
        ELSE LET k == CHOOSE k \in cands : \A m \in cands : k <= m
             IN  [ok |-> TRUE,
                  hasSub |-> k > 2,
                  subdomain |-> Join(SubSeq(ls, 1, k - 2)),
                  domain |-> ls[k - 1],
                  suffix |-> Join(SubSeq(ls, k, n))]

NoTld == Extract(<<>>)

\* main.rs 44-46: name={}.{} of the zone lookup
ZoneQueryName(t) == t.domain \o Dot \o t.suffix

\* main.rs 55-58: let sub = match tld.subdomain ...
Sub(t) == IF t.hasSub THEN Dot \o t.subdomain ELSE <<>>

\* main.rs 63-67: name={}{}.{} of the record lookup
RecordQueryName(t) == Sub(t) \o t.domain \o Dot \o t.suffix

\* main.rs 93-98: "name":"{}{}.{}" of the update body
BodyName(t) == Sub(t) \o t.domain \o Dot \o t.suffix

\* (mutant) the update keeps the type the record had
BodyTypeKept(rec) == rec.type

\* main.rs 93: "type":"A" of the update body
BodyType(rec) == "A"

\* (mutant) the update always switches the proxy off
BodyProxiedOff(rec) == "false"

\* (mutant) the update flips the proxy flag
BodyProxiedToggled(rec) == IF rec.proxied = "true" THEN "false" ELSE "true"

\* main.rs 81, 99: "proxied":{} of the update body
BodyProxied(rec) == rec.proxied

\* (mutant) the emptiness test of the zone lookup is left out
ZoneMissingNever(resp) == FALSE

\* main.rs 49: resp["result"].len() < 1
ZoneMissing(resp) == Len(resp.result) < 1

\* main.rs 73: resp["result"].len() < 1
RecordMissing(resp) == Len(resp.result) < 1

\* (mutant) the negation of the type test is lost
TypeGateInverted(type) == ~(type = "A" \/ type = "AAAA")

\* (mutant) the type gate lets every record through
TypeGateOpen(type) == TRUE

\* main.rs 77: the record's type is A or AAAA
TypeGate(type) == type = "A" \/ type = "AAAA"

\* main.rs 107-110: the outcome word of an update response
PutOutcome(success) == IF success = "true" THEN "Success" ELSE "Fail"

\* (mutant) every 2xx status counts as success (StatusCode::is_success)
YdOutcomeAny2xx(status) ==
    IF status >= 200 /\ status < 300 THEN "Success" ELSE "Fail"

\* main.rs 144-147: the outcome word of a YDNS status
YdOutcome(status) == IF status = 200 THEN "Success" ELSE "Fail"

(***************************************************************************)
(* Backend A (zone/record REST API) as the wire contract describes it.     *)
(***************************************************************************)
IdOrder == <<"r1", "r2">>

RECURSIVE Matching(_, _)
\* the records named n, in the backend's listing order
Matching(n, k) ==
    IF k > Len(IdOrder) THEN <<>>
    ELSE LET r == IdOrder[k]
         IN  (IF records[r].name = n
              THEN <<[id |-> r, type |-> records[r].type,
                      name |-> records[r].name,
                      content |-> records[r].content,
                      proxied |-> records[r].proxied]>>
              ELSE <<>>) \o Matching(n, k + 1)

\* (mutant) the last element of the result is read, not the first
FirstIsLast(result) ==
    IF Len(result) > 0 THEN result[Len(result)]
    ELSE [id |-> Null, type |-> Null, name |-> Null, content |-> Null,
          proxied |-> Null]

\* json::JsonValue indexing: an index out of range yields Null, and so does
\* every member of Null
JsonNull == [id |-> Null, type |-> Null, name |-> Null, content |-> Null,
             proxied |-> Null]
First(result) == IF Len(result) > 0 THEN result[1] ELSE JsonNull

\* GET zones?name=n&status=active&per_page=1&page=1
ZoneResponses(n) ==
    { [kind |-> "error", success |-> Null, result |-> <<>>],
      [kind |-> "garbage", success |-> Null, result |-> <<>>],
      [kind |-> "json", success |-> "false", result |-> <<>>],
      [kind |-> "json", success |-> "true",
       result |-> IF \E z \in zones : z.name = n
                  THEN <<[id |-> TheZone.id]>> ELSE <<>>] }
    \cup (IF \E z \in zones : z.name = n
          THEN {[kind |-> "json", success |-> "true",
                 result |-> <<[id |-> Null]>>]}
          ELSE {})

\* GET zones/{z}/dns_records?name=n
RecordResponses(z, n) ==
    LET ms == IF z = TheZone.id THEN Matching(n, 1) ELSE <<>>
    IN  { [kind |-> "error", success |-> Null, result |-> <<>>],
          [kind |-> "garbage", success |-> Null, result |-> <<>>],
          [kind |-> "json", success |-> "false", result |-> <<>>],
          [kind |-> "json", success |-> "true", result |-> ms] }
        \cup (IF Len(ms) > 0
              THEN {[kind |-> "json", success |-> "true",
                     result |-> <<[ms[1] EXCEPT !.proxied = Null]>>
                                \o Tail(ms)],
                    [kind |-> "json", success |-> "true",
                     result |-> <<[ms[1] EXCEPT !.id = Null]>> \o Tail(ms)]}
              ELSE {})

\* PUT zones/{z}/dns_records/{id}: the answers, and whether the backend
\* applied the write (a lost or garbled answer may follow either)
PutResponses ==
    { [kind |-> "json", success |-> "true", result |-> <<>>,
       applied |-> TRUE],
      [kind |-> "json", success |-> "false", result |-> <<>>,
       applied |-> FALSE] }
    \cup [kind : {"error", "garbage", "json"}, success : {Null},
          result : {<<>>}, applied : BOOLEAN]

\* the backend's record store after a PUT body b for record id
Overwrite(b) ==
    [records EXCEPT ![b.id] = [name |-> b.name, type |-> b.type,
                               content |-> b.content, proxied |-> b.proxied]]

(***************************************************************************)
(* The program.                                                            *)
(***************************************************************************)
Init ==
    /\ pc = "get_ip"
    /\ cfDomains \in SeqsUpTo(CfNames, MaxDomains)
    /\ ydDomains \in SeqsUpTo({YdName}, MaxDomains)
    /\ i = 1
    /\ tld = NoTld
    /\ zone_id = Null
    /\ proxied = Null
    /\ record_id = Null
    /\ zones \in SUBSET {TheZone}
    /\ records \in Stores
    /\ calls = <<>>
    /\ resps = <<>>
    /\ puts = <<>>
    /\ out = <<>>
    /\ attempts = <<>>
    /\ outcomes = <<>>
    /\ fatal = "none"
    /\ run = 1
    /\ snap = [store |-> records, served |-> FALSE]

Locals == <<tld, zone_id, proxied, record_id>>
Config == <<cfDomains, ydDomains>>
Histories == <<calls, resps, puts, out, attempts, outcomes>>
Runs == <<run, snap>>

Ctl(p, k) == [pc |-> p, i |-> k]

\* (mutant) main drops the Err of the Cloudflare update and goes on
OnFatalContained(k) ==
    IF pc \in {"cf_zone", "cf_record", "cf_put"}
    THEN Ctl("yd_loop", 1) ELSE Ctl("aborted", k)

\* (mutant) a missing or malformed configuration is passed over
OnFatalConfigIgnored(k) ==
    IF pc = "load_config" THEN Ctl("cf_loop", 1) ELSE Ctl("aborted", k)

\* (mutant) a name that does not decompose is passed over
OnFatalNameSkipped(k) ==
    IF pc = "cf_loop" THEN Ctl("cf_loop", k + 1) ELSE Ctl("aborted", k)

\* (mutant) a skip ends the run
OnContinueAborts(k) == Ctl("aborted", k)

\* (mutant) a failed YDNS update is tried again
YdAfterOutcomeRetry(word, k) ==
    IF word = "Fail" THEN Ctl("yd_loop", k) ELSE Ctl("yd_loop", k + 1)

\* (mutant) break instead of continue
OnContinueBreak(k) == Ctl("yd_loop", 1)

\* (mutant) the loop does not advance behind an update
AfterOutcomeAgain(word, k) == Ctl("cf_loop", k)

\* (mutant) a rejected update ends the run
AfterOutcomeFailStops(word, k) ==
    IF word = "Fail" THEN Ctl("aborted", k) ELSE Ctl("cf_loop", k + 1)

\* main.rs 192-193 (and 139): an Err returned by update is unwrapped in
\* main, a panic ends the process: nothing runs after it
OnFatal(k) == Ctl("aborted", k)

\* main.rs 50, 74, 78: continue
OnContinue(k) == Ctl("cf_loop", k + 1)

\* main.rs 105-112: after the outcome word the for loop goes on
AfterOutcome(word, k) == Ctl("cf_loop", k + 1)

\* main.rs 142-149: after the outcome word the for loop goes on
YdAfterOutcome(word, k) == Ctl("yd_loop", k + 1)

Go(c, why) ==
    /\ pc' = c.pc
    /\ i' = c.i
    /\ fatal' = why

Abort(why) == Go(OnFatal(i), why)

Call(b, op, n) == [b |-> b, i |-> i, op |-> op, name |-> n]
Line(b, text) == [b |-> b, i |-> i, text |-> text]
\* (mutant) the prefix is printed only together with the outcome word
PrefixWithheld(b) == <<>>

\* main.rs 30, 128: print!("[..] Update {subdomain}: ")
Prefix(b) == <<Line(b, "prefix")>>

Outcome(b, word) == [b |-> b, i |-> i, word |-> word]
Resp(b, op, r) == [b |-> b, i |-> i, op |-> op, kind |-> r.kind,
                   success |-> r.success, result |-> r.result, status |-> 0]

\* main.rs 162-167: the external IP
MainGetIp ==
    /\ pc = "get_ip"
    /\ \E ok \in BOOLEAN :
          IF ok THEN Go(Ctl("load_config", i), fatal)
          ELSE Abort("ip")
    /\ UNCHANGED <<Runs, Config, Locals, zones, records, Histories>>

\* main.rs 169-190: find and parse the configuration
MainLoadConfig ==
    /\ pc = "load_config"
    /\ \E file \in {"ok", "missing", "malformed"} :
          IF file = "ok" THEN Go(Ctl("cf_loop", 1), fatal)
          ELSE Abort("config")
    /\ UNCHANGED <<Runs, Config, Locals, zones, records, Histories>>

\* main.rs 25-47: the next subdomain: extract, print the prefix, send the
\* zone lookup
CfBegin ==
    /\ pc = "cf_loop"
    /\ i <= Len(cfDomains)
    /\ attempts' = Append(attempts, <<"cf", i>>)
    /\ LET t == Extract(cfDomains[i])
       IN  IF ~t.ok
           THEN /\ Abort("decompose")
                \* extract fails (line 28), or yields no suffix (line 46)
                /\ out' \in {out, out \o Prefix("cf")}
                /\ UNCHANGED <<tld, calls>>
           ELSE /\ Go(Ctl("cf_zone", i), fatal)
                /\ tld' = t
                /\ out' = out \o Prefix("cf")
                /\ calls' = Append(calls,
                                   Call("cf", "zones", ZoneQueryName(t)))
    /\ UNCHANGED <<Runs, Config, zone_id, proxied, record_id, zones, records,
                   resps, puts, outcomes>>

\* main.rs 114, 193: the loop is over, main goes on to YDNS
CfEnd ==
    /\ pc = "cf_loop"
    /\ i > Len(cfDomains)
    /\ Go(Ctl("yd_loop", 1), fatal)
    /\ UNCHANGED <<Runs, Config, Locals, zones, records, Histories>>

\* main.rs 47-71: the zone lookup's response, then the record lookup
CfZoneResp ==
    /\ pc = "cf_zone"
    /\ \E r \in ZoneResponses(ZoneQueryName(tld)) :
          /\ resps' = Append(resps, Resp("cf", "zones", r))
          /\ IF r.kind # "json"
             THEN /\ Abort("transport")
                  /\ UNCHANGED <<zone_id, calls, outcomes>>
             ELSE IF ZoneMissing(r)
             THEN /\ Go(OnContinue(i), fatal)
                  /\ outcomes' = Append(outcomes, Outcome("cf", "Skipped"))
                  /\ UNCHANGED <<zone_id, calls>>
             ELSE IF First(r.result).id = Null
             THEN /\ Abort("unwrap")
                  /\ UNCHANGED <<zone_id, calls, outcomes>>
             ELSE /\ Go(Ctl("cf_record", i), fatal)
                  /\ zone_id' = First(r.result).id
                  /\ calls' = Append(calls,
                                     Call("cf", "records",
                                          RecordQueryName(tld)))
                  /\ UNCHANGED outcomes
    /\ UNCHANGED <<Runs, Config, tld, proxied, record_id, zones, records, puts,
                   out, attempts>>

\* main.rs 92-100: the update body
Body(rec) ==
    [i |-> i, zone |-> zone_id, id |-> rec.id, content |-> MyIp,
     type |-> BodyType(rec), name |-> BodyName(tld),
     proxied |-> BodyProxied(rec)]

\* main.rs 71-103: the record lookup's response, the type gate, then the
\* update request
CfRecordResp ==
    /\ pc = "cf_record"
    /\ \E r \in RecordResponses(zone_id, RecordQueryName(tld)) :
          /\ resps' = Append(resps, Resp("cf", "records", r))
          /\ IF r.kind # "json"
             THEN /\ Abort("transport")
                  /\ UNCHANGED <<proxied, record_id, calls, puts, outcomes>>
             ELSE IF RecordMissing(r) \/ ~TypeGate(First(r.result).type)
             THEN /\ Go(OnContinue(i), fatal)
                  /\ outcomes' = Append(outcomes, Outcome("cf", "Skipped"))
                  /\ UNCHANGED <<proxied, record_id, calls, puts>>
             ELSE IF First(r.result).proxied \notin JsonBools
             THEN /\ Abort("unwrap")
                  /\ UNCHANGED <<proxied, record_id, calls, puts, outcomes>>
             ELSE IF First(r.result).id = Null
             THEN /\ Abort("unwrap")
                  /\ proxied' = First(r.result).proxied
                  /\ UNCHANGED <<record_id, calls, puts, outcomes>>
             ELSE /\ Go(Ctl("cf_put", i), fatal)
                  /\ proxied' = First(r.result).proxied
                  /\ record_id' = First(r.result).id
                  /\ puts' = Append(puts, Body(First(r.result)))
                  /\ calls' = Append(calls,
                                     Call("cf", "put", BodyName(tld)))
                  /\ UNCHANGED outcomes
    /\ UNCHANGED <<Runs, Config, tld, zone_id, zones, records, out, attempts>>

\* main.rs 101-112: the update's response and the outcome word
CfPutResp ==
    /\ pc = "cf_put"
    /\ \E r \in PutResponses :
          /\ resps' = Append(resps, Resp("cf", "put", r))
          /\ records' = IF r.applied THEN Overwrite(puts[Len(puts)])
                        ELSE records
          /\ IF r.kind # "json"
             THEN /\ Abort("transport")
                  /\ UNCHANGED <<out, outcomes>>
             ELSE IF r.success \notin JsonBools
             THEN /\ Abort("unwrap")
                  /\ UNCHANGED <<out, outcomes>>
             ELSE /\ Go(AfterOutcome(PutOutcome(r.success), i), fatal)
                  /\ out' = Append(out, Line("cf", PutOutcome(r.success)))
                  /\ outcomes' = Append(outcomes,
                                        Outcome("cf", PutOutcome(r.success)))
    /\ UNCHANGED <<Runs, Config, Locals, zones, calls, puts, attempts>>

\* main.rs 127-140: the next subdomain: print the prefix, send the request
YdBegin ==
    /\ pc = "yd_loop"
    /\ i <= Len(ydDomains)
    /\ Go(Ctl("yd_wait", i), fatal)
    /\ attempts' = Append(attempts, <<"yd", i>>)
    /\ out' = out \o Prefix("yd")
    /\ calls' = Append(calls, Call("yd", "get", ydDomains[i]))
    /\ UNCHANGED <<Runs, Config, Locals, zones, records, resps, puts, outcomes>>

\* main.rs 138-149: the response: send's Err is unwrapped, else the status
\* decides the outcome word
YdResp ==
    /\ pc = "yd_wait"
    /\ \E s \in {0} \cup Statuses :
          IF s = 0
          THEN /\ Abort("transport")
               /\ resps' = Append(resps,
                                  [b |-> "yd", i |-> i, op |-> "get",
                                   kind |-> "error", success |-> Null,
                                   result |-> <<>>, status |-> s])
               /\ UNCHANGED <<out, outcomes>>
          ELSE /\ Go(YdAfterOutcome(YdOutcome(s), i), fatal)
               /\ resps' = Append(resps,
                                  [b |-> "yd", i |-> i, op |-> "get",
                                   kind |-> "status", success |-> Null,
                                   result |-> <<>>, status |-> s])
               /\ out' = Append(out, Line("yd", YdOutcome(s)))
               /\ outcomes' = Append(outcomes, Outcome("yd", YdOutcome(s)))
    /\ UNCHANGED <<Runs, Config, Locals, zones, records, calls, puts, attempts>>

\* main.rs 151, 194: the loop is over, main returns
YdEnd ==
    /\ pc = "yd_loop"
    /\ i > Len(ydDomains)
    /\ Go(Ctl("done", i), fatal)
    /\ UNCHANGED <<Runs, Config, Locals, zones, records, Histories>>

Next ==
    \/ MainGetIp
    \/ MainLoadConfig
    \/ CfBegin
    \/ CfEnd
    \/ CfZoneResp
    \/ CfRecordResp
    \/ CfPutResp
    \/ YdBegin
    \/ YdResp
    \/ YdEnd

Spec == Init /\ [][Next]_vars

\* every call blocks until a response or a transport error arrives, and
\* the single thread always takes its next step
InitFair ==
    /\ Init
    /\ records["r1"].name = ApexName
    /\ records["r1"].type \in {"A", "CNAME"}
    /\ records["r1"].proxied = "false"
    /\ records["r2"].name = LabelName

FairSpec == InitFair /\ [][Next]_vars /\ WF_vars(Next)

(***************************************************************************)
(* The Cloudflare protocol run twice in succession with the same IP: the   *)
(* program is started again once CloudflareService::update has returned.   *)
(***************************************************************************)
\* the backend answered every call of the run and accepted every update
Served ==
    \A k \in DOMAIN resps :
        resps[k].kind = "json" /\ resps[k].success = "true"

\* main.rs 192: config.cloudflare.update(&my_ip) invoked a second time, on
\* the store the first run left; nothing is kept between runs
Rerun ==
    /\ pc = "yd_loop"
    /\ i = 1
    /\ run = 1
    /\ run' = 2
    /\ snap' = [store |-> records, served |-> Served]
    /\ Go(Ctl("cf_loop", 1), fatal)
    /\ tld' = NoTld
    /\ zone_id' = Null
    /\ proxied' = Null
    /\ record_id' = Null
    /\ calls' = <<>>
    /\ resps' = <<>>
    /\ puts' = <<>>
    /\ out' = <<>>
    /\ attempts' = <<>>
    /\ outcomes' = <<>>
    /\ UNCHANGED <<Config, zones, records>>

InitTwice == Init /\ ydDomains = <<>>

NextTwice ==
    \/ MainGetIp
    \/ MainLoadConfig
    \/ CfBegin
    \/ CfEnd
    \/ CfZoneResp
    \/ CfRecordResp
    \/ CfPutResp
    \/ Rerun

SpecTwice == InitTwice /\ [][NextTwice]_vars

(***************************************************************************)
(* What the histories say.                                                 *)
(***************************************************************************)
Last(s) == s[Len(s)]

IsPrefix(s, t) == Len(s) <= Len(t) /\ \A k \in 1..Len(s) : s[k] = t[k]

\* every subdomain of the configuration, Cloudflare's list then YDNS's
AllAttempts ==
    [k \in 1..Len(cfDomains) |-> <<"cf", k>>]
        \o [k \in 1..Len(ydDomains) |-> <<"yd", k>>]

Called(b, n, op) ==
    \E k \in DOMAIN calls :
        calls[k].b = b /\ calls[k].i = n /\ calls[k].op = op

OutcomeIs(b, n, word) ==
    \E k \in DOMAIN outcomes : outcomes[k] = [b |-> b, i |-> n, word |-> word]

\* a parsable answer to subdomain n's call op
Answered(k, op) ==
    resps[k].b = "cf" /\ resps[k].op = op /\ resps[k].kind = "json"

\* the first record subdomain n's record lookup returned
Looked(n) ==
    LET k == CHOOSE k \in DOMAIN resps :
                 resps[k].b = "cf" /\ resps[k].i = n
                 /\ resps[k].op = "records"
    IN  IF Len(resps[k].result) > 0 THEN resps[k].result[1] ELSE JsonNull

\* the first zone subdomain n's zone lookup returned
LookedZone(n) ==
    LET k == CHOOSE k \in DOMAIN resps :
                 resps[k].b = "cf" /\ resps[k].i = n /\ resps[k].op = "zones"
    IN  IF Len(resps[k].result) > 0 THEN resps[k].result[1] ELSE JsonNull

\* the run goes on behind subdomain n of Cloudflare: while nothing later
\* has been started the loop stands at n + 1 or, behind the last one, main
\* has gone on to YDNS (and is done if YDNS has no subdomain)
GoesOnAfter(n) ==
    Last(attempts) = <<"cf", n>> =>
        /\ fatal = "none"
        /\ \/ pc = "cf_loop" /\ i = n + 1
           \/ n = Len(cfDomains) /\ pc = "yd_loop" /\ i = 1
           \/ n = Len(cfDomains) /\ pc = "done" /\ ydDomains = <<>>

(***************************************************************************)
(* C1: a subdomain whose record lookup returns a first record of a type    *)
(* that is neither A nor AAAA gets no update (PUT) call, and its outcome   *)
(* is Skipped.                                                             *)
(***************************************************************************)
C1_NonAddressRecordSkipped ==
    \A k \in DOMAIN resps :
        ( /\ Answered(k, "records")
          /\ Len(resps[k].result) >= 1
          /\ resps[k].result[1].type \notin {"A", "AAAA"} )
        => /\ ~Called("cf", resps[k].i, "put")
           /\ OutcomeIs("cf", resps[k].i, "Skipped")

C1_Witness ==
    \E k \in DOMAIN resps :
        /\ Answered(k, "records")
        /\ Len(resps[k].result) >= 1
        /\ resps[k].result[1].type = "CNAME"
        /\ resps[k].result[1].proxied \in JsonBools
        /\ OutcomeIs("cf", resps[k].i, "Skipped")

(***************************************************************************)
(* C2: a subdomain whose zone lookup returns zero results gets neither a   *)
(* record lookup nor an update call, its outcome is Skipped, and the loop  *)
(* proceeds to the next subdomain.                                         *)
(***************************************************************************)
C2_NoZoneNoFurtherCall ==
    \A k \in DOMAIN resps :
        (Answered(k, "zones") /\ Len(resps[k].result) = 0)
        => /\ ~Called("cf", resps[k].i, "records")
           /\ ~Called("cf", resps[k].i, "put")
           /\ OutcomeIs("cf", resps[k].i, "Skipped")
           /\ GoesOnAfter(resps[k].i)

C2_Witness ==
    \E k \in DOMAIN resps :
        /\ Answered(k, "zones")
        /\ Len(resps[k].result) = 0
        /\ resps[k].success = "true"
        /\ Called("cf", resps[k].i + 1, "zones")

(***************************************************************************)
(* C3 as claimed: the type carried by every update request equals the type *)
(* the record had when it was looked up (also for an AAAA record).         *)
(***************************************************************************)
C3_TypeNeverConverted ==
    \A k \in DOMAIN puts : puts[k].type = Looked(puts[k].i).type

(***************************************************************************)
(* C3 as amended: every update request carries type A, for a looked-up A   *)
(* record and for a looked-up AAAA record alike: an A record keeps its     *)
(* type and an AAAA record is retyped to A.                                *)
(***************************************************************************)
C3_TypeAlwaysA ==
    \A k \in DOMAIN puts :
        /\ Looked(puts[k].i).type \in {"A", "AAAA"}
        /\ puts[k].type = "A"

C3_Witness ==
    \E k \in DOMAIN puts :
        /\ Looked(puts[k].i).type = "AAAA"
        /\ puts[k].id = Looked(puts[k].i).id
        /\ records[puts[k].id].type = "A"

(***************************************************************************)
(* C4 as claimed: the record name sent in the record lookup and in the     *)
(* update body equals the configured subdomain exactly.                    *)
(***************************************************************************)
C4_NameSentIsSubdomain ==
    \A k \in DOMAIN calls :
        (calls[k].b = "cf" /\ calls[k].op \in {"records", "put"})
        => calls[k].name = cfDomains[calls[k].i]

(***************************************************************************)
(* C5: every update request carries the proxied value and the name of the  *)
(* record the lookup returned (and addresses that record); its content is  *)
(* the run's IP and its type is A.                                         *)
(***************************************************************************)
C5_UpdateKeepsNameAndProxied ==
    \A k \in DOMAIN puts :
        LET f == Looked(puts[k].i)
        IN  /\ puts[k].proxied = f.proxied
            /\ puts[k].name = f.name
            /\ puts[k].id = f.id
            /\ puts[k].content = MyIp
            /\ puts[k].type = "A"

C5_Witness ==
    \E k \in DOMAIN puts :
        /\ Looked(puts[k].i).proxied = "true"
        /\ Looked(puts[k].i).content # MyIp
        /\ OutcomeIs("cf", puts[k].i, "Success")

(***************************************************************************)
(* C6: a YDNS subdomain whose request got a response has outcome Success   *)
(* if and only if the status is 200; every other status yields Fail.       *)
(***************************************************************************)
C6_SuccessIffStatus200 ==
    \A k \in DOMAIN resps :
        (resps[k].b = "yd" /\ resps[k].kind = "status")
        => /\ OutcomeIs("yd", resps[k].i, "Success") <=> resps[k].status = 200
           /\ OutcomeIs("yd", resps[k].i, "Fail") <=> resps[k].status # 200
           /\ \E m \in DOMAIN out :
                 out[m] = [b |-> "yd", i |-> resps[k].i,
                           text |-> IF resps[k].status = 200
                                    THEN "Success" ELSE "Fail"]

C6_Witness ==
    /\ \E k \in DOMAIN resps :
          resps[k].b = "yd" /\ resps[k].status = 204
          /\ OutcomeIs("yd", resps[k].i, "Fail")
    /\ \E k \in DOMAIN resps :
          resps[k].b = "yd" /\ resps[k].status = 200
          /\ OutcomeIs("yd", resps[k].i, "Success")

(***************************************************************************)
(* C7 as claimed: in every run (that got as far as the backends) every     *)
(* configured subdomain of every backend is attempted exactly once, in     *)
(* list order.                                                             *)
(***************************************************************************)
C7_EveryRunAttemptsAll ==
    (pc \in {"done", "aborted"} /\ fatal \notin {"ip", "config"})
    => attempts = AllAttempts

(***************************************************************************)
(* C7 as amended: the subdomains attempted so far are always a prefix of   *)
(* the configured order (Cloudflare's list, then YDNS's), each attempted   *)
(* once; a run that no fatal error cuts short has attempted every one.     *)
(***************************************************************************)
C7_AttemptsInOrder ==
    /\ IsPrefix(attempts, AllAttempts)
    /\ pc = "done" => attempts = AllAttempts

C7_Witness ==
    /\ pc = "done"
    /\ Len(cfDomains) = MaxDomains
    /\ Len(ydDomains) = MaxDomains
    /\ OutcomeIs("cf", 1, "Skipped")
    /\ attempts = AllAttempts

(***************************************************************************)
(* C8 as claimed: when the run ends, each backend has printed as many      *)
(* outcome lines (Success or Fail) as it has subdomains whose processing   *)
(* no fatal error cut short.                                               *)
(***************************************************************************)
C8_LinesEqualProcessed ==
    pc \in {"done", "aborted"} =>
        \A b \in {"cf", "yd"} :
            Cardinality({k \in DOMAIN out :
                            out[k].b = b
                            /\ out[k].text \in {"Success", "Fail"}})
                = Cardinality({k \in DOMAIN outcomes : outcomes[k].b = b})

(***************************************************************************)
(* C9: an update answered with a parsable success = false records Fail     *)
(* for that subdomain and does not abort the run: the loop goes on to the  *)
(* next subdomain, and a run that ends normally has attempted every        *)
(* subdomain of both backends.                                             *)
(***************************************************************************)
C9_RejectionIsContained ==
    \A k \in DOMAIN resps :
        (Answered(k, "put") /\ resps[k].success = "false")
        => /\ OutcomeIs("cf", resps[k].i, "Fail")
           /\ GoesOnAfter(resps[k].i)
           /\ pc = "done" => attempts = AllAttempts

C9_Witness ==
    \E k \in DOMAIN resps :
        /\ Answered(k, "put")
        /\ resps[k].success = "false"
        /\ resps[k].i = 1
        /\ Called("cf", 2, "zones")
        /\ Called("yd", 1, "get")

(***************************************************************************)
(* C10: a transport error (no response, or an unparsable body) in any      *)
(* call of either backend aborts the run: it is the last response, the     *)
(* call it answers is the last call ever issued.                           *)
(***************************************************************************)
C10_TransportErrorIsFatal ==
    \A k \in DOMAIN resps :
        resps[k].kind \in {"error", "garbage"}
        => /\ pc = "aborted"
           /\ fatal = "transport"
           /\ k = Len(resps)
           /\ Len(calls) = k
           /\ calls[k].b = resps[k].b
           /\ calls[k].i = resps[k].i
           /\ calls[k].op = resps[k].op

C10_Witness ==
    /\ Len(resps) > 0
    /\ Last(resps).kind = "garbage"
    /\ Last(resps).op = "records"
    /\ Len(attempts) < Len(AllAttempts)
    /\ Len(ydDomains) > 0

(***************************************************************************)
(* C11: when no configuration file is found, or the one found does not     *)
(* parse, the run aborts before any backend is invoked: no subdomain is    *)
(* attempted and no network call of either backend is ever issued.         *)
(***************************************************************************)
C11_BadConfigAbortsBeforeBackends ==
    fatal = "config"
    => /\ pc = "aborted"
       /\ calls = <<>>
       /\ puts = <<>>
       /\ attempts = <<>>

C11_Witness ==
    /\ fatal = "config"
    /\ pc = "aborted"
    /\ Len(cfDomains) > 0
    /\ Len(ydDomains) > 0

(***************************************************************************)
(* C12: a subdomain whose decomposition fails gets no network call, and    *)
(* the failure ends the run: that subdomain is the last one attempted, so  *)
(* no later Cloudflare subdomain and no YDNS subdomain is attempted.       *)
(***************************************************************************)
C12_DecompositionFailureIsFatal ==
    /\ \A k \in DOMAIN attempts :
          (attempts[k][1] = "cf" /\ ~Extract(cfDomains[attempts[k][2]]).ok)
          => /\ fatal = "decompose"
             /\ k = Len(attempts)
             /\ \A m \in DOMAIN calls :
                   ~(calls[m].b = "cf" /\ calls[m].i = attempts[k][2])
    /\ fatal = "decompose"
       => /\ pc = "aborted"
          /\ \A m \in DOMAIN calls : calls[m].b # "yd"

C12_Witness ==
    /\ fatal = "decompose"
    /\ cfDomains = <<ApexName, BadName>>
    /\ Len(ydDomains) > 0
    /\ Last(attempts) = <<"cf", 2>>
    /\ Called("cf", 1, "zones")

(***************************************************************************)
(* C13: the Cloudflare update is idempotent.  When the protocol is run a   *)
(* second time with the same IP on the store that a first run, served by   *)
(* the backend, has left, the records stay exactly as that first run left  *)
(* them, at every step of the second run and whatever the backend answers  *)
(* in it.                                                                  *)
(***************************************************************************)
C13_SecondRunChangesNothing ==
    (run = 2 /\ snap.served) => records = snap.store

C13_Witness ==
    /\ run = 2
    /\ snap.served
    /\ pc = "yd_loop"
    /\ Len(puts) > 0
    /\ Last(resps).op = "put"
    /\ Last(resps).success = "true"
    /\ Looked(Last(puts).i).type = "A"
    /\ \E r \in RecordIds :
          snap.store[r].content = MyIp /\ records[r].content = MyIp
    /\ \E r \in RecordIds : records[r].content = OldIp

(***************************************************************************)
(* C14: each Cloudflare subdomain gets at most one update (PUT) call; it   *)
(* addresses the record_id of the first record its record lookup returned, *)
(* in the zone_id its zone lookup returned; and a step changes a backend   *)
(* record only if it is the answer to that update and the record is the    *)
(* one addressed: every record with another record_id stays as it was.     *)
(***************************************************************************)
C14_OneUpdateOfTheFirstRecord ==
    /\ [](\A k \in DOMAIN puts :
            /\ \A m \in DOMAIN puts : puts[m].i = puts[k].i => m = k
            /\ puts[k].id = Looked(puts[k].i).id
            /\ puts[k].zone = LookedZone(puts[k].i).id)
    /\ [][\A r \in RecordIds :
            records'[r] # records[r]
            => /\ pc = "cf_put"
               /\ r = Last(puts).id
               /\ r = Looked(i).id]_vars

C14_Witness ==
    /\ Len(puts) > 0
    /\ Len(Matching(ApexName, 1)) = 2
    /\ Last(puts).id = "r1"
    /\ records["r1"].content = MyIp
    /\ records["r2"].content = OldIp
    /\ records["r2"].name = ApexName

\* what was printed for subdomain n of backend b
Printed(b, n) == {m \in DOMAIN out : out[m].b = b /\ out[m].i = n}

(***************************************************************************)
(* C15 as claimed: for a Cloudflare subdomain whose outcome is Skipped     *)
(* nothing at all is written to the progress output.                       *)
(***************************************************************************)
C15_SkippedPrintsNothing ==
    \A k \in DOMAIN outcomes :
        (outcomes[k].b = "cf" /\ outcomes[k].word = "Skipped")
        => Printed("cf", outcomes[k].i) = {}

(***************************************************************************)
(* C15 as amended: for a Cloudflare subdomain whose outcome is Skipped     *)
(* exactly the prefix "[Cloudflare] Update <subdomain>: " is written: no   *)
(* outcome word and nothing else.                                          *)
(***************************************************************************)
C15_SkippedPrintsOnlyThePrefix ==
    \A k \in DOMAIN outcomes :
        (outcomes[k].b = "cf" /\ outcomes[k].word = "Skipped")
        => /\ Cardinality(Printed("cf", outcomes[k].i)) = 1
           /\ \A m \in Printed("cf", outcomes[k].i) : out[m].text = "prefix"

C15_Witness ==
    /\ OutcomeIs("cf", 1, "Skipped")
    /\ Called("cf", 1, "records")
    /\ OutcomeIs("cf", 2, "Success")
    /\ Len(out) = 3
    /\ out[1].text = "prefix"
    /\ out[2].text = "prefix"

(***************************************************************************)
(* C16: within one Cloudflare subdomain the steps are ordered and each     *)
(* depends on the one before: the zone lookup is its first call; a record  *)
(* lookup directly follows a zone lookup of the same subdomain that        *)
(* returned at least one zone; an update directly follows a record lookup  *)
(* of the same subdomain whose first record is of type A or AAAA; and a    *)
(* record lookup with zero results yields Skipped and no update.           *)
(***************************************************************************)
C16_StepsOrderedAndConditional ==
    /\ \A k \in DOMAIN calls :
          calls[k].b = "cf" =>
            /\ calls[k].op = "zones"
               => k = 1 \/ calls[k - 1].i < calls[k].i
            /\ calls[k].op = "records"
               => /\ k > 1
                  /\ calls[k - 1].op = "zones"
                  /\ calls[k - 1].i = calls[k].i
                  /\ Answered(k - 1, "zones")
                  /\ resps[k - 1].i = calls[k].i
                  /\ Len(resps[k - 1].result) >= 1
            /\ calls[k].op = "put"
               => /\ k > 1
                  /\ calls[k - 1].op = "records"
                  /\ calls[k - 1].i = calls[k].i
                  /\ Answered(k - 1, "records")
                  /\ resps[k - 1].i = calls[k].i
                  /\ Len(resps[k - 1].result) >= 1
                  /\ resps[k - 1].result[1].type \in {"A", "AAAA"}
    /\ \A k \in DOMAIN resps :
          (Answered(k, "records") /\ Len(resps[k].result) = 0)
          => /\ ~Called("cf", resps[k].i, "put")
             /\ OutcomeIs("cf", resps[k].i, "Skipped")

C16_Witness ==
    /\ Len(calls) = 5
    /\ calls[3].op = "put"
    /\ calls[5].op = "records"
    /\ Len(resps) = 5
    /\ resps[5].kind = "json"
    /\ resps[5].success = "true"
    /\ Len(resps[5].result) = 0
    /\ OutcomeIs("cf", 2, "Skipped")

\* the run goes on behind subdomain n of YDNS
YdGoesOnAfter(n) ==
    Last(attempts) = <<"yd", n>> =>
        /\ fatal = "none"
        /\ \/ pc = "yd_loop" /\ i = n + 1
           \/ n = Len(ydDomains) /\ pc = "done"

(***************************************************************************)
(* C17: YDNS issues exactly one request for each subdomain it attempts,    *)
(* never a second one; a status other than 200 yields Fail for that        *)
(* subdomain only: the loop goes on to the next subdomain, and a run that  *)
(* ends normally has attempted them all.                                   *)
(***************************************************************************)
C17_OneRequestFailureContained ==
    /\ \A n \in 1..Len(ydDomains) :
          Cardinality({k \in DOMAIN calls :
                          calls[k].b = "yd" /\ calls[k].i = n})
              = Cardinality({k \in DOMAIN attempts :
                                attempts[k] = <<"yd", n>>})
    /\ \A k \in DOMAIN attempts : \A m \in DOMAIN attempts :
          attempts[k] = attempts[m] => k = m
    /\ \A k \in DOMAIN resps :
          (resps[k].b = "yd" /\ resps[k].kind = "status"
           /\ resps[k].status # 200)
          => /\ OutcomeIs("yd", resps[k].i, "Fail")
             /\ YdGoesOnAfter(resps[k].i)
             /\ pc = "done" => attempts = AllAttempts

C17_Witness ==
    \E k \in DOMAIN resps :
        /\ resps[k].b = "yd"
        /\ resps[k].i = 1
        /\ resps[k].status = 401
        /\ Called("yd", 2, "get")
        /\ pc = "done"

(***************************************************************************)
(* C18: in Cloudflare the outcome Fail comes from the update step only:    *)
(* every Fail answers an update that reported success = false, while a     *)
(* zone or record lookup answered with a parsable response whose result    *)
(* list is empty or absent (a rejected lookup included) yields Skipped,    *)
(* never Fail, and the run goes on.                                        *)
(***************************************************************************)
C18_FailOnlyFromTheUpdate ==
    /\ \A k \in DOMAIN outcomes :
          (outcomes[k].b = "cf" /\ outcomes[k].word = "Fail")
          => \E m \in DOMAIN resps :
                /\ Answered(m, "put")
                /\ resps[m].i = outcomes[k].i
                /\ resps[m].success = "false"
    /\ \A k \in DOMAIN resps :
          ( /\ Answered(k, "zones") \/ Answered(k, "records")
            /\ Len(resps[k].result) = 0 )
          => /\ OutcomeIs("cf", resps[k].i, "Skipped")
             /\ ~OutcomeIs("cf", resps[k].i, "Fail")
             /\ GoesOnAfter(resps[k].i)

C18_Witness ==
    /\ \E k \in DOMAIN resps :
          /\ Answered(k, "records")
          /\ resps[k].success = "false"
          /\ resps[k].i = 1
    /\ \E k \in DOMAIN resps :
          /\ Answered(k, "zones")
          /\ resps[k].success = "false"
          /\ resps[k].i = 2
    /\ pc = "yd_loop"
    /\ outcomes = <<[b |-> "cf", i |-> 1, word |-> "Skipped"],
                    [b |-> "cf", i |-> 2, word |-> "Skipped"]>>

Terminated == pc \in {"done", "aborted"}

\* no subdomain is started twice and no call is issued twice
NothingRepeated ==
    /\ \A k \in DOMAIN attempts : \A m \in DOMAIN attempts :
          attempts[k] = attempts[m] => k = m
    /\ \A k \in DOMAIN calls : \A m \in DOMAIN calls :
          ( /\ calls[k].b = calls[m].b
            /\ calls[k].i = calls[m].i
            /\ calls[k].op = calls[m].op ) => k = m

(***************************************************************************)
(* C19: when every network call eventually returns, every run eventually   *)
(* terminates: normally, after Cloudflare and then YDNS have processed all *)
(* their subdomains (every one attempted, in order), or by a fatal abort;  *)
(* no subdomain is processed a second time and no step is repeated.        *)
(***************************************************************************)
C19_EveryRunTerminates ==
    /\ <>Terminated
    /\ [](pc = "done" => (fatal = "none" /\ attempts = AllAttempts))
    /\ [](pc = "aborted" => fatal # "none")
    /\ []NothingRepeated

C19_Witness ==
    /\ pc = "done"
    /\ Len(attempts) = 2 * MaxDomains
    /\ outcomes[1].word = "Success"
    /\ outcomes[2].word = "Fail"
    /\ Len(outcomes) = 2 * MaxDomains

====
